---- MODULE Spec2Model ----
(***************************************************************************)
(* A model of husc/main.py, the command-line driver of the HUSC image      *)
(* preprocessing functions: main() and the handlers run_mask, run_illum    *)
(* and run_features, together with the calls they make into the            *)
(* preprocess, screens and image I/O collaborators.                        *)
(*                                                                         *)
(* A path is a record [stem, ext]; an image is a sequence of pixel values; *)
(* fractions (quantile, stretch limits) are counted in hundredths.         *)
(***************************************************************************)
EXTENDS FiniteSets, Integers, Sequences, TLC

VARIABLES
    pc,           \* position in the running program
    err,          \* the exception that ended the program, "none" otherwise
    exit_status,  \* "running", or the process's exit status as a string
    argv,         \* sys.argv[1:], a sequence of tokens
    ran,          \* the handlers main() has called, in order
    given,        \* the argparse namespace as parse_args() returned it
    args,         \* the argparse namespace (run_illum extends args.images)
    fs,           \* the file system: path -> [exists, px]
    reads,        \* the paths read so far, in order
    writes,       \* the files written so far, in order: [path, px]
    il,           \* run_illum: the illumination field, <<>> before it is set
    estimations,  \* run_illum: the stacks handed to the estimator, in order
    cur,          \* the loop variables of the running handler
    corrected,    \* run_illum: the corrector's calls, in order
    counts,       \* run_mask: the (n, m) pair write_max_masks returned
    report,       \* run_mask: what --verbose printed
    mapped,       \* run_features: the indices of the images given to fmap
    feats,        \* run_features: f0/feature_vectors and feature_names
    hdf,          \* run_features: the tables written with to_hdf
    txt           \* run_features: the text files written

vars == <<pc, err, exit_status, argv, ran, given, args, fs, reads, writes, il,
          estimations, cur, corrected, counts, report, mapped, feats, hdf, txt>>

(***************************************************************************)
(* Bounds of the model.                                                    *)
(***************************************************************************)
MaxImages == 2    \* positional images on a command line
MaxList == 1      \* lines of the --file-list file
MaxArgs == 6      \* tokens after the program name
MaxSample == 3    \* largest value of the sample type

(***************************************************************************)
(* Sequences and pixels.                                                   *)
(***************************************************************************)
SeqsUpTo(S, n) == UNION {[1..k -> S] : k \in 0..n}

Range(s) == {s[k] : k \in DOMAIN s}

SetMin(S) == CHOOSE x \in S : \A y \in S : x <= y

SetMax(S) == CHOOSE x \in S : \A y \in S : x >= y

Clip(v) == IF v > MaxSample THEN MaxSample ELSE IF v < 0 THEN 0 ELSE v

(***************************************************************************)
(* Paths and the file system.                                              *)
(***************************************************************************)
Path(stem, ext) == [stem |-> stem, ext |-> ext]

ImagePaths == {Path("a", ".tif"), Path("b", ".tif")}

AllPaths == [stem : {"a", "b", "il"}, ext : {".tif", ".illum.tif", ".mask.tif"}]

Absent == [exists |-> FALSE, px |-> <<>>]

File(px) == [exists |-> TRUE, px |-> px]

\* os.path.isfile
isfile(files, p) == files[p].exists

\* the image I/O collaborator's write: imsave(path, image)
imsave(files, p, px) == [files EXCEPT ![p] = File(px)]

(***************************************************************************)
(* The preprocess collaborators, from their contracts.                     *)
(***************************************************************************)
Raised(e, rd) == [raised |-> e, read |-> rd, value |-> <<>>]

Returned(v, rd) == [raised |-> "none", read |-> rd, value |-> v]

\* pre.basefn: the filename without its extension
basefn(fn) == fn.stem

\* fn + suffix, for a base name fn
WithSuffix(base, suffix) == Path(base, suffix)

\* stretch(image, low, 1 - low): the darkest sample maps to 0, the brightest
\* to the top of the sample range
stretchlim(im, low) ==
    LET lo == SetMin(Range(im))
        hi == SetMax(Range(im))
    IN  IF im = <<>> \/ hi = lo THEN im
        ELSE [k \in DOMAIN im |-> ((im[k] - lo) * MaxSample) \div (hi - lo)]

Window(im, k, radius) == {j \in DOMAIN im : j - k <= radius /\ k - j <= radius}

Dilate(m, radius) == [k \in DOMAIN m |-> \E j \in Window(m, k, radius) : m[j]]

Erode(m, radius) == [k \in DOMAIN m |-> \A j \in Window(m, k, radius) : m[j]]

\* the automatic threshold: midway between the darkest and brightest sample
AutoThreshold(im) == (SetMin(Range(im)) + SetMax(Range(im))) \div 2

\* 4.1 estimate_mask: True marks a bright artifact
estimate_mask(im, offset, close_radius, erode_radius) ==
    LET m0 == [k \in DOMAIN im |-> im[k] > AutoThreshold(im) + offset]
        m1 == IF close_radius > 0 THEN Erode(Dilate(m0, close_radius), close_radius)
              ELSE m0
    IN  IF erode_radius > 0 THEN Erode(m1, erode_radius) ELSE m1

FractionOK(q) == 0 <= q /\ q <= 100

\* the value of rank quantile among the samples S of image im
QuantileOf(im, S, quantile) ==
    LET r == (quantile * (Cardinality(S) - 1)) \div 100 + 1
    IN  CHOOSE v \in {im[j] : j \in S} :
            /\ Cardinality({j \in S : im[j] < v}) < r
            /\ Cardinality({j \in S : im[j] <= v}) >= r

\* steps 1 to 3 of 4.2 for one image: stretch, mask, windowed quantile
LocalBackground(im0, radius, quantile, stretch_in, use_mask, mask_offset, mask_close, mask_erode) ==
    LET im == IF stretch_in > 0 THEN stretchlim(im0, stretch_in) ELSE im0
        m  == IF use_mask
              THEN estimate_mask(im, mask_offset, mask_close, mask_erode)
              ELSE [k \in DOMAIN im |-> FALSE]
    IN  [k \in DOMAIN im |->
            LET S == {j \in Window(im, k, radius) : ~m[j]}
            IN  IF S = {} THEN MaxSample ELSE QuantileOf(im, S, quantile)]

\* step 4 of 4.2: the per-pixel minimum across the stack
Aggregate(locals) ==
    [k \in DOMAIN locals[1] |->
        SetMin({locals[n][k] : n \in {x \in DOMAIN locals : k \in DOMAIN locals[x]}})]

\* 4.2 pre.find_background_illumination over the files named fns
find_background_illumination(files, fns, radius, quantile, stretch_in, use_mask, mask_offset, mask_close, mask_erode) ==
    LET unreadable == {k \in DOMAIN fns : ~isfile(files, fns[k])}
    IN  IF ~(/\ radius >= 0 /\ mask_close >= 0 /\ mask_erode >= 0
             /\ FractionOK(quantile) /\ FractionOK(stretch_in))
        THEN Raised("ParameterError", <<>>)
        ELSE IF fns = <<>> THEN Raised("EmptyInputError", <<>>)
        ELSE IF unreadable # {}
        THEN Raised("IOError", SubSeq(fns, 1, SetMin(unreadable) - 1))
        ELSE Returned(Aggregate([n \in DOMAIN fns |->
                        LocalBackground(files[fns[n]].px, radius, quantile,
                                        stretch_in, use_mask, mask_offset,
                                        mask_close, mask_erode)]), fns)

\* 4.3 pre.correct_image_illumination
correct_image_illumination(im, field, stretch_out, mask) ==
    IF ~FractionOK(stretch_out) THEN Raised("ParameterError", <<>>)
    ELSE IF Len(field) # Len(im) \/ Len(mask) # Len(im)
    THEN Raised("ShapeMismatchError", <<>>)
    ELSE LET peak == SetMax(Range(field))
             flat == [k \in DOMAIN im |->
                        IF ~mask[k] THEN im[k]
                        ELSE IF field[k] = 0 THEN MaxSample
                        ELSE Clip((im[k] * peak) \div field[k])]
         IN  Returned(IF stretch_out > 0 THEN stretchlim(flat, stretch_out)
                      ELSE flat, <<>>)

(***************************************************************************)
(* State shared by the handlers.                                           *)
(***************************************************************************)
NoPath == Path("", "")

Idle == [i |-> 0, im |-> <<>>, fout |-> NoPath, mask_fn |-> NoPath, mask |-> <<>>]

NoArgs == [images |-> <<>>]

NoFeats == [vectors |-> <<>>, names |-> <<>>]

mainVars == <<argv, ran>>

illumVars == <<il, estimations, corrected>>

maskVars == <<counts, report>>

featVars == <<mapped, feats, hdf, txt>>

InitIdle ==
    /\ err = "none" /\ exit_status = "running"
    /\ argv = <<>> /\ ran = <<>>
    /\ reads = <<>> /\ writes = <<>>
    /\ il = <<>> /\ estimations = <<>> /\ corrected = <<>>
    /\ cur = Idle
    /\ counts = <<0, 0>> /\ report = <<>>
    /\ mapped = <<>> /\ feats = NoFeats /\ hdf = <<>> /\ txt = <<>>

\* an exception nobody catches ends the interpreter with status 1
Uncaught(e) == pc' = "done" /\ err' = e /\ exit_status' = "1"

\* the handler returns to main(), which returns: status 0
Return == pc' = "done" /\ err' = err /\ exit_status' = "0"

(***************************************************************************)
(* run_illum.                                                              *)
(***************************************************************************)
NoneValue == [isNone |-> TRUE, lines |-> <<>>, path |-> NoPath]

OpenFile(lines) == [isNone |-> FALSE, lines |-> lines, path |-> NoPath]

Filename(p) == [isNone |-> FALSE, lines |-> <<>>, path |-> p]

Lines == {[text |-> p, eol |-> "\n"] : p \in ImagePaths}

\* str.rstrip of a line of the file list
rstrip(line) == line.text

\* the illum defaults of the parser
IllumDefaults ==
    [use_mask |-> FALSE, mask_offset |-> 0, mask_close |-> 0, mask_erode |-> 0,
     stretchlim |-> 0, stretchlim_output |-> 0, quantile |-> 5, radius |-> 51]

\* the defaults, and the defaults with one option given on the command line
IllumOptions ==
    {IllumDefaults,
     [IllumDefaults EXCEPT !.use_mask = TRUE],
     [IllumDefaults EXCEPT !.stretchlim = 5],
     [IllumDefaults EXCEPT !.stretchlim_output = 5],
     [IllumDefaults EXCEPT !.radius = -1],
     [IllumDefaults EXCEPT !.quantile = 150],
     [IllumDefaults EXCEPT !.stretchlim = -10],
     [IllumDefaults EXCEPT !.stretchlim_output = 150],
     [IllumDefaults EXCEPT !.mask_close = -1],
     [IllumDefaults EXCEPT !.mask_erode = -1]}

IllumArgs ==
    {[images |-> ims, file_list |-> fl, output_suffix |-> sfx,
      save_illumination |-> sv, opt |-> o] :
        ims \in SeqsUpTo(ImagePaths, MaxImages),
        fl \in {NoneValue} \cup {OpenFile(l) : l \in SeqsUpTo(Lines, MaxList)},
        sfx \in {".illum.tif", ".tif"},
        sv \in {NoneValue, Filename(Path("il", ".tif"))},
        o \in IllumOptions}

IllumFiles ==
    {[p \in AllPaths |->
        IF p = Path("a", ".tif") THEN a
        ELSE IF p = Path("b", ".tif") THEN b
        ELSE IF p = Path("a", ".mask.tif") THEN ma
        ELSE IF p = Path("b", ".mask.tif") THEN mb
        ELSE Absent] :
        a \in {File(<<1, 2>>), Absent},
        b \in {File(<<2, 1>>), Absent},
        ma \in {Absent, File(<<0, 1>>), File(<<1>>)},
        mb \in {Absent, File(<<2, 0>>)}}

InitIllum ==
    /\ InitIdle
    /\ pc = "run_illum"
    /\ given \in IllumArgs
    /\ args = given
    /\ fs \in IllumFiles

\* run_illum without the extend of line 178
extended_images_positional_only(a) == a.images

\* lines 177-178: args.images.extend(fn.rstrip() for fn in args.file_list)
extended_images(a) ==
    IF ~a.file_list.isNone
    THEN a.images \o [k \in DOMAIN a.file_list.lines |-> rstrip(a.file_list.lines[k])]
    ELSE a.images

\* line 186: il / il.max()
normalized(field) ==
    IF field = <<>> \/ SetMax(Range(field)) = 0 THEN field
    ELSE [k \in DOMAIN field |-> (field[k] * 100) \div SetMax(Range(field))]

\* the output names paired with the images in reverse
ims_out_reversed(images, suffix) ==
    [k \in DOMAIN images |->
        WithSuffix(basefn(images[Len(images) + 1 - k]), suffix)]

\* lines 187-188
ims_out(images, suffix) ==
    [k \in DOMAIN images |-> WithSuffix(basefn(images[k]), suffix)]

\* lines 187, 189
mask_fns(images) ==
    [k \in DOMAIN images |-> WithSuffix(basefn(images[k]), ".mask.tif")]

\* ndarray.astype(bool)
astype_bool(px) == [k \in DOMAIN px |-> px[k] # 0]

\* np.ones(im.shape, bool)
ones_bool(im) == [k \in DOMAIN im |-> TRUE]

\* the mask file read with the opposite polarity
select_mask_inverted(files, mask_fn, im) ==
    IF isfile(files, mask_fn)
    THEN [k \in DOMAIN files[mask_fn].px |-> files[mask_fn].px[k] = 0]
    ELSE ones_bool(im)

\* lines 192-195
select_mask(files, mask_fn, im) ==
    IF isfile(files, mask_fn) THEN astype_bool(files[mask_fn].px)
    ELSE ones_bool(im)

\* lines 177-178
illum_extend ==
    /\ pc = "run_illum"
    /\ args' = [args EXCEPT !.images = extended_images(args)]
    /\ pc' = "estimate"
    /\ UNCHANGED <<err, exit_status, given, fs, reads, writes, cur,
                   mainVars, illumVars, maskVars, featVars>>

\* the estimator's call wrapped in a try/except that carries on
after_estimate_swallowed(r) == "save"

\* where run_illum goes on after the estimator's call of lines 179-182
after_estimate(r) == IF r.raised # "none" THEN "done" ELSE "save"

\* lines 179-182 (the print of lines 183-184 changes no state)
illum_estimate ==
    /\ pc = "estimate"
    /\ LET o == args.opt
           r == find_background_illumination(fs, args.images, o.radius,
                    o.quantile, o.stretchlim, o.use_mask, o.mask_offset,
                    o.mask_close, o.mask_erode)
       IN  /\ estimations' = Append(estimations, args.images)
           /\ reads' = reads \o r.read
           /\ pc' = after_estimate(r)
           /\ IF pc' = "done"
              THEN err' = r.raised /\ exit_status' = "1" /\ il' = il
              ELSE err' = err /\ exit_status' = exit_status /\ il' = r.value
    /\ UNCHANGED <<given, args, fs, writes, cur, corrected,
                   mainVars, maskVars, featVars>>

\* lines 185-190: save the field, then set up the lazy loop
illum_save ==
    /\ pc = "save"
    /\ IF ~args.save_illumination.isNone
       THEN /\ fs' = imsave(fs, args.save_illumination.path, normalized(il))
            /\ writes' = Append(writes, [path |-> args.save_illumination.path,
                                         px |-> normalized(il)])
       ELSE UNCHANGED <<fs, writes>>
    /\ cur' = Idle
    /\ pc' = "next"
    /\ UNCHANGED <<err, exit_status, given, args, reads,
                   mainVars, illumVars, maskVars, featVars>>

\* line 191: izip draws the next image from the generator of line 190, which
\* reads it, then the next output name and mask name
illum_next ==
    /\ pc = "next"
    /\ LET i == cur.i + 1
       IN  IF i > Len(args.images)
           THEN Return /\ UNCHANGED <<cur, reads>>
           ELSE IF ~isfile(fs, args.images[i])
           THEN Uncaught("IOError") /\ UNCHANGED <<cur, reads>>
           ELSE /\ cur' = [i |-> i, im |-> fs[args.images[i]].px,
                           fout |-> ims_out(args.images, args.output_suffix)[i],
                           mask_fn |-> mask_fns(args.images)[i], mask |-> <<>>]
                /\ reads' = Append(reads, args.images[i])
                /\ pc' = "mask"
                /\ UNCHANGED <<err, exit_status>>
    /\ UNCHANGED <<given, args, fs, writes, mainVars, illumVars, maskVars, featVars>>

\* lines 192-195
illum_mask ==
    /\ pc = "mask"
    /\ cur' = [cur EXCEPT !.mask = select_mask(fs, cur.mask_fn, cur.im)]
    /\ reads' = IF isfile(fs, cur.mask_fn) THEN Append(reads, cur.mask_fn) ELSE reads
    /\ pc' = "correct"
    /\ UNCHANGED <<err, exit_status, given, args, fs, writes,
                   mainVars, illumVars, maskVars, featVars>>

\* lines 196-197
illum_correct ==
    /\ pc = "correct"
    /\ LET r == correct_image_illumination(cur.im, il, args.opt.stretchlim_output,
                                           cur.mask)
       IN  IF r.raised # "none"
           THEN Uncaught(r.raised) /\ UNCHANGED <<cur, corrected>>
           ELSE /\ cur' = [cur EXCEPT !.im = r.value]
                /\ corrected' = Append(corrected,
                       [i |-> cur.i, im |-> cur.im, field |-> il,
                        mask |-> cur.mask, out |-> r.value])
                /\ pc' = "write"
                /\ UNCHANGED <<err, exit_status>>
    /\ UNCHANGED <<given, args, fs, reads, writes, il, estimations,
                   mainVars, maskVars, featVars>>

\* line 198
illum_write ==
    /\ pc = "write"
    /\ fs' = imsave(fs, cur.fout, cur.im)
    /\ writes' = Append(writes, [path |-> cur.fout, px |-> cur.im])
    /\ pc' = "next"
    /\ UNCHANGED <<err, exit_status, given, args, reads, cur,
                   mainVars, illumVars, maskVars, featVars>>

NextIllum ==
    \/ illum_extend
    \/ illum_estimate
    \/ illum_save
    \/ illum_next
    \/ illum_mask
    \/ illum_correct
    \/ illum_write

SpecIllum == InitIllum /\ [][NextIllum]_vars

(***************************************************************************)
(* Properties of run_illum.                                                *)
(***************************************************************************)
\* the input stack: the positional images, then the names of the file list
WholeStack ==
    given.images \o
    [k \in DOMAIN given.file_list.lines |-> given.file_list.lines[k].text]

\* the writes of the correction loop: all but the saved field
LoopWrites ==
    IF ~given.save_illumination.isNone /\ writes # <<>> THEN Tail(writes) ELSE writes

IsImage(p) == p.ext # ".mask.tif"

\* the images the correction loop has read: those read after the estimator's
LoopReads ==
    SelectSeq(SubSeq(reads, Len(WholeStack) + 1, Len(reads)), IsImage)

Occurrences(s, x) == Cardinality({k \in DOMAIN s : s[k] = x})

EstimatorOptionsOK(o) ==
    /\ o.radius >= 0 /\ o.mask_close >= 0 /\ o.mask_erode >= 0
    /\ 0 <= o.quantile /\ o.quantile <= 100
    /\ 0 <= o.stretchlim /\ o.stretchlim <= 100

IllumOptionsOK(o) ==
    EstimatorOptionsOK(o) /\ 0 <= o.stretchlim_output /\ o.stretchlim_output <= 100

\* C2: an out-of-range quantile or stretch fraction, or a negative radius,
\* makes illum, run on one or more readable images, fail with a
\* ParameterError before any image has been read and before any file has been
\* written.
C2_BadParameterFailsBeforeAnyImage ==
    (/\ ~IllumOptionsOK(given.opt)
     /\ WholeStack # <<>>
     /\ \A k \in DOMAIN WholeStack : fs[WholeStack[k]].exists) =>
        /\ reads = <<>>
        /\ writes = <<>>
        /\ pc = "done" => err = "ParameterError"

\* C3: a ShapeMismatchError raised while correcting one image of the illum
\* batch leaves every other image of the batch corrected and written.
C3_ShapeMismatchSparesTheBatch ==
    (pc = "done" /\ err = "ShapeMismatchError") =>
        \A k \in DOMAIN WholeStack :
            k # cur.i =>
                \E w \in DOMAIN LoopWrites :
                    LoopWrites[w].path = Path(WholeStack[k].stem, given.output_suffix)

C5_OneFieldFromWholeStack ==
    /\ Len(estimations) <= 1
    /\ pc \notin {"run_illum", "estimate"} => estimations = <<WholeStack>>
    /\ pc \in {"save", "next", "mask", "correct", "write"} =>
        /\ il # <<>>
        /\ SubSeq(reads, 1, Len(WholeStack)) = WholeStack
    /\ (writes # <<>> \/ corrected # <<>>) =>
        /\ il # <<>>
        /\ estimations = <<WholeStack>>
    /\ \A c \in DOMAIN corrected : corrected[c].field = il

C5_Witness ==
    /\ Len(corrected) = 2
    /\ given.images # <<>>
    /\ given.file_list.lines # <<>>
    /\ corrected[1].im # corrected[2].im

\* C6: every input image is read exactly once during one illum invocation:
\* no file is read more often than it is named in the input stack.
C6_EachImageReadOnce ==
    \A p \in ImagePaths : Occurrences(reads, p) <= Occurrences(WholeStack, p)

\* C9: the mask handed to the corrector is chosen per image: the content of
\* <base>.mask.tif as booleans (non-zero is True, no inversion) when that file
\* exists, else all True over the image's shape, so that no pixel is passed
\* through.
C9_MaskChosenPerImage ==
    \A c \in DOMAIN corrected :
        LET e == corrected[c]
            mfile == fs[Path(WholeStack[e.i].stem, ".mask.tif")]
        IN  /\ mfile.exists =>
                /\ Len(e.mask) = Len(mfile.px)
                /\ \A k \in DOMAIN e.mask : e.mask[k] = (mfile.px[k] # 0)
            /\ ~mfile.exists =>
                /\ Len(e.mask) = Len(e.im)
                /\ {k \in DOMAIN e.im : ~e.mask[k]} = {}

C9_Witness ==
    /\ \E c \in DOMAIN corrected :
        /\ fs[Path(WholeStack[corrected[c].i].stem, ".mask.tif")].exists
        /\ \E k \in DOMAIN corrected[c].mask : ~corrected[c].mask[k]
        /\ \E k \in DOMAIN corrected[c].mask : corrected[c].mask[k]
    /\ \E c \in DOMAIN corrected :
        ~fs[Path(WholeStack[corrected[c].i].stem, ".mask.tif")].exists

\* C10: the outputs written so far are always a prefix of the sequence
\* base(i-th input) + suffix, image i + 1 is read only once output i has been
\* written, and a run that ends without error has written all n of them.
C10_OutputsInInputOrder ==
    /\ Len(LoopWrites) <= Len(WholeStack)
    /\ \A k \in DOMAIN LoopWrites :
        LoopWrites[k].path = Path(WholeStack[k].stem, given.output_suffix)
    /\ Len(LoopReads) \in {Len(LoopWrites), Len(LoopWrites) + 1}
    /\ LoopReads = SubSeq(WholeStack, 1, Len(LoopReads))
    /\ (pc = "done" /\ err = "none") => Len(LoopWrites) = Len(WholeStack)

C10_Witness ==
    /\ pc = "done" /\ err = "none"
    /\ Len(LoopWrites) = 2
    /\ LoopWrites[1].path # LoopWrites[2].path

(***************************************************************************)
(* run_mask, and pre.write_max_masks from its contract (4.1).              *)
(***************************************************************************)
MaskArgs ==
    {[images |-> ims, offset |-> off, close |-> c, erode |-> e, verbose |-> v] :
        ims \in SeqsUpTo(ImagePaths, MaxImages) \ {<<>>},
        off \in {0, 1}, c \in {-1, 0, 1}, e \in {-1, 0, 1}, v \in BOOLEAN}

MaskFiles ==
    {[p \in AllPaths |->
        IF p = Path("a", ".tif") THEN a
        ELSE IF p = Path("b", ".tif") THEN b
        ELSE Absent] :
        a \in {File(<<1, 2>>), File(<<1, 1>>), Absent},
        b \in {File(<<2, 1>>), Absent}}

InitMask ==
    /\ InitIdle
    /\ pc = "run_mask"
    /\ given \in MaskArgs
    /\ args = given
    /\ fs \in MaskFiles

MaskLoop(i, written, processed) ==
    [i |-> i, im |-> <<>>, fout |-> NoPath, mask_fn |-> NoPath, mask |-> <<>>,
     written |-> written, processed |-> processed]

\* the counts printed in the other order
report_line_swapped(n, m) == [masks_created |-> m, images_processed |-> n]

\* line 166: "%i masks created out of %i images processed" % (n, m)
report_line(n, m) == [masks_created |-> n, images_processed |-> m]

\* line 164: the call of pre.write_max_masks, which validates the radii
\* before it touches an image
mask_call ==
    /\ pc = "run_mask"
    /\ IF args.close < 0 \/ args.erode < 0
       THEN Uncaught("ParameterError") /\ UNCHANGED cur
       ELSE /\ cur' = MaskLoop(0, 0, 0)
            /\ pc' = "write_max_masks"
            /\ UNCHANGED <<err, exit_status>>
    /\ UNCHANGED <<given, args, fs, reads, writes,
                   mainVars, illumVars, maskVars, featVars>>

\* pre.write_max_masks, one image: an unreadable image is skipped and counted
\* as processed; a mask is written only when it has a True pixel
write_max_masks_step ==
    /\ pc = "write_max_masks"
    /\ cur.i < Len(args.images)
    /\ LET fn == args.images[cur.i + 1]
           m == estimate_mask(fs[fn].px, args.offset, args.close, args.erode)
           out == WithSuffix(basefn(fn), ".mask.tif")
       IN  IF ~isfile(fs, fn)
           THEN /\ cur' = MaskLoop(cur.i + 1, cur.written, cur.processed + 1)
                /\ UNCHANGED <<fs, reads, writes>>
           ELSE /\ reads' = Append(reads, fn)
                /\ IF \E k \in DOMAIN m : m[k]
                   THEN /\ fs' = imsave(fs, out, m)
                        /\ writes' = Append(writes, [path |-> out, px |-> m])
                        /\ cur' = MaskLoop(cur.i + 1, cur.written + 1,
                                           cur.processed + 1)
                   ELSE /\ cur' = MaskLoop(cur.i + 1, cur.written,
                                           cur.processed + 1)
                        /\ UNCHANGED <<fs, writes>>
    /\ UNCHANGED <<pc, err, exit_status, given, args,
                   mainVars, illumVars, maskVars, featVars>>

\* lines 164-166: n, m = <the returned pair>, then the report
mask_report ==
    /\ pc = "write_max_masks"
    /\ cur.i = Len(args.images)
    /\ counts' = <<cur.written, cur.processed>>
    /\ report' = IF args.verbose
                 THEN <<report_line(counts'[1], counts'[2])>>
                 ELSE <<>>
    /\ Return
    /\ UNCHANGED <<given, args, fs, reads, writes, cur,
                   mainVars, illumVars, featVars>>

NextMask ==
    \/ mask_call
    \/ write_max_masks_step
    \/ mask_report

SpecMask == InitMask /\ [][NextMask]_vars

\* the images of the batch that can be read
Readable == {k \in DOMAIN given.images : fs[given.images[k]].exists}

\* C7: in the mask command an unreadable image never aborts the batch: it is
\* skipped, counted as processed and not as mask-written, every other image
\* is still processed, and the reported counts satisfy
\* masks_written <= images_processed = number of input images.
C7_UnreadableImageIsSkipped ==
    /\ err \in {"none", "ParameterError"}
    /\ err = "ParameterError" <=>
        (pc = "done" /\ (given.close < 0 \/ given.erode < 0))
    /\ Range(reads) \subseteq {given.images[k] : k \in Readable}
    /\ pc = "write_max_masks" =>
        /\ cur.processed = cur.i
        /\ cur.written <= cur.processed
    /\ (pc = "done" /\ err = "none") =>
        /\ Len(reads) = Cardinality(Readable)
        /\ counts[1] <= Cardinality(Readable)
        /\ counts[1] = Len(writes)
        /\ counts[1] <= counts[2]
        /\ counts[2] = Len(given.images)
        /\ given.verbose =>
            /\ Len(report) = 1
            /\ report[1].masks_created = Len(writes)
            /\ report[1].images_processed = Len(given.images)

C7_Witness ==
    /\ pc = "done" /\ err = "none" /\ given.verbose
    /\ Len(given.images) = 2
    /\ ~fs[given.images[1]].exists
    /\ fs[given.images[2]].exists
    /\ counts = <<1, 2>>

(***************************************************************************)
(* run_features, and the screens plugin from its contract (6).             *)
(***************************************************************************)
\* screens.d: the screens that have a feature map
ScreenNames == {"myofusion"}

\* screen_info['index']: filename -> SampleID
index_function(fn) == [sample |-> fn.stem]

\* screen_info['fmap']: image -> (feature vector, ordered names)
fmap(im) ==
    [vector |-> <<SetMin(Range(im)), SetMax(Range(im))>>,
     names |-> <<"min", "max">>]

\* an hdf5 filename and a one-letter filename, as strings of characters
OutputNames == {<<"o", ".", "h", "5">>, <<"x">>}

FeaturesArgs ==
    {[images |-> ims, output |-> out, screen |-> scr] :
        ims \in SeqsUpTo(ImagePaths, MaxImages),
        out \in OutputNames,
        scr \in {"myofusion", "nosuch"}}

FeaturesFiles ==
    {[p \in AllPaths |->
        IF p = Path("a", ".tif") THEN a
        ELSE IF p = Path("b", ".tif") THEN b
        ELSE Absent] :
        a \in {File(<<1, 2>>), File(<<2, 2>>), Absent},
        b \in {File(<<2, 1>>), Absent}}

InitFeatures ==
    /\ InitIdle
    /\ pc = "run_features"
    /\ given \in FeaturesArgs
    /\ args = given
    /\ fs \in FeaturesFiles

\* images.next() that leaves the first image in the iterator
consumed_by_next_none(pos) == pos

\* line 242: images.next() takes one image off the imap iterator of line 239
consumed_by_next(pos) == pos + 1

\* line 248: args.output[:-2] + 'filenames.txt'
filenames_path(output) == SubSeq(output, 1, Len(output) - 2) \o <<"filenames.txt">>

\* lines 239-242: the screen's functions, then the first image and its features
features_first ==
    /\ pc = "run_features"
    /\ IF args.screen \notin ScreenNames
       THEN Uncaught("KeyError") /\ UNCHANGED <<cur, reads, mapped, feats>>
       ELSE IF args.images = <<>>
       THEN Uncaught("StopIteration") /\ UNCHANGED <<cur, reads, mapped, feats>>
       ELSE IF ~isfile(fs, args.images[1])
       THEN Uncaught("IOError") /\ UNCHANGED <<cur, reads, mapped, feats>>
       ELSE /\ reads' = Append(reads, args.images[1])
            /\ mapped' = Append(mapped, 1)
            /\ feats' = [vectors |-> <<fmap(fs[args.images[1]].px).vector>>,
                         names |-> fmap(fs[args.images[1]].px).names]
            /\ cur' = [Idle EXCEPT !.i = consumed_by_next(0)]
            /\ pc' = "rest"
            /\ UNCHANGED <<err, exit_status>>
    /\ UNCHANGED <<given, args, fs, writes, hdf, txt,
                   mainVars, illumVars, maskVars>>

\* line 243: one turn of the list comprehension over what the iterator has left
features_rest ==
    /\ pc = "rest"
    /\ cur.i < Len(args.images)
    /\ LET i == cur.i + 1
       IN  IF ~isfile(fs, args.images[i])
           THEN Uncaught("IOError") /\ UNCHANGED <<cur, reads, mapped, feats>>
           ELSE /\ reads' = Append(reads, args.images[i])
                /\ mapped' = Append(mapped, i)
                /\ feats' = [feats EXCEPT
                       !.vectors = Append(@, fmap(fs[args.images[i]].px).vector)]
                /\ cur' = [cur EXCEPT !.i = i]
                /\ UNCHANGED <<pc, err, exit_status>>
    /\ UNCHANGED <<given, args, fs, writes, hdf, txt,
                   mainVars, illumVars, maskVars>>

\* lines 244-247: the DataFrame, which needs as many index entries as rows,
\* and its to_hdf
features_table ==
    /\ pc = "rest"
    /\ cur.i = Len(args.images)
    /\ LET index == [k \in DOMAIN args.images |-> index_function(args.images[k])]
       IN  IF Len(index) # Len(feats.vectors)
           THEN Uncaught("ValueError") /\ UNCHANGED hdf
           ELSE /\ hdf' = Append(hdf, [path |-> args.output, key |-> "data",
                                       index |-> index, rows |-> feats.vectors,
                                       columns |-> feats.names])
                /\ pc' = "filenames"
                /\ UNCHANGED <<err, exit_status>>
    /\ UNCHANGED <<given, args, fs, reads, writes, cur, mapped, feats, txt,
                   mainVars, illumVars, maskVars>>

\* lines 248-249
features_filenames ==
    /\ pc = "filenames"
    /\ txt' = Append(txt, [path |-> filenames_path(args.output),
                           lines |-> [k \in DOMAIN args.images |->
                                        [text |-> args.images[k], eol |-> "\n"]]])
    /\ Return
    /\ UNCHANGED <<given, args, fs, reads, writes, cur, mapped, feats, hdf,
                   mainVars, illumVars, maskVars>>

NextFeatures ==
    \/ features_first
    \/ features_rest
    \/ features_table
    \/ features_filenames

SpecFeatures == InitFeatures /\ [][NextFeatures]_vars

Commands == {"crop", "mask", "illum", "stitch", "cat", "features"}

\* the first token after the program name: a command, the help option or
\* anything else; the later tokens are positional arguments or the help option
FirstTokens == Commands \cup {"-h", "bogus"}

RestTokens == {"img", "-h"}

ArgVectors ==
    {<<>>} \cup
    {<<first>> \o rest :
        first \in FirstTokens, rest \in SeqsUpTo(RestTokens, MaxArgs - 1)}

\* the least number of positional arguments each subparser accepts:
\* crop has nargs=4 and nargs='+', mask nargs='+', features nargs='*' and one
\* more, the others nargs='*'
PositionalsNeeded(cmd) ==
    IF cmd = "crop" THEN 5
    ELSE IF cmd \in {"mask", "features"} THEN 1
    ELSE 0

\* line 123, parser.parse_args(): "ok", or the exit it makes: "help" (status
\* 0) for -h, "error" (status 2) for a missing or unknown command or too few
\* arguments
parse_args(v) ==
    IF v = <<>> THEN "error"
    ELSE IF v[1] = "-h" THEN "help"
    ELSE IF v[1] \notin Commands THEN "error"
    ELSE IF "-h" \in Range(Tail(v)) THEN "help"
    ELSE IF Len(v) - 1 < PositionalsNeeded(v[1]) THEN "error"
    ELSE "ok"

\* sys.argv: the program name, then the arguments
sys_argv == <<"husc">> \o argv

\* lines 105-118: argv[1]
get_command(v) == v[2]

\* the dispatch with two branches exchanged
handler_for_swapped(cmd) ==
    IF cmd = "crop" THEN "run_crop"
    ELSE IF cmd = "mask" THEN "run_mask"
    ELSE IF cmd = "illum" THEN "run_illum"
    ELSE IF cmd = "stitch" THEN "run_cat"
    ELSE IF cmd = "cat" THEN "run_stitch"
    ELSE IF cmd = "features" THEN "run_features"
    ELSE "exit"

\* lines 125-140: the handler main() calls for a command, "exit" for the
\* else branch
handler_for(cmd) ==
    IF cmd = "crop" THEN "run_crop"
    ELSE IF cmd = "mask" THEN "run_mask"
    ELSE IF cmd = "illum" THEN "run_illum"
    ELSE IF cmd = "stitch" THEN "run_stitch"
    ELSE IF cmd = "cat" THEN "run_cat"
    ELSE IF cmd = "features" THEN "run_features"
    ELSE "exit"

InitMain ==
    /\ pc = "main"
    /\ argv \in ArgVectors
    /\ err = "none" /\ exit_status = "running"
    /\ ran = <<>>
    /\ given = NoArgs /\ args = NoArgs
    /\ fs = [p \in AllPaths |-> Absent]
    /\ reads = <<>> /\ writes = <<>>
    /\ il = <<>> /\ estimations = <<>> /\ corrected = <<>>
    /\ cur = Idle
    /\ counts = <<0, 0>> /\ report = <<>>
    /\ mapped = <<>> /\ feats = NoFeats /\ hdf = <<>> /\ txt = <<>>

handlerVars == <<given, args, fs, reads, writes, cur, illumVars, maskVars, featVars>>

\* line 123: parse_args() returns the namespace or ends the process
main_parse ==
    /\ pc = "main"
    /\ LET r == parse_args(argv)
       IN  /\ pc' = IF r = "ok" THEN "dispatch" ELSE "done"
           /\ exit_status' = IF r = "ok" THEN exit_status
                             ELSE IF r = "help" THEN "0" ELSE "2"
    /\ UNCHANGED <<err, argv, ran, handlerVars>>

\* lines 124-140: the command name, then the call of its handler or the
\* sys.exit(2) of the else branch
main_dispatch ==
    /\ pc = "dispatch"
    /\ LET h == handler_for(get_command(sys_argv))
       IN  IF h = "exit"
           THEN /\ pc' = "done" /\ exit_status' = "2"
                /\ UNCHANGED ran
           ELSE /\ pc' = "handler"
                /\ ran' = Append(ran, h)
                /\ UNCHANGED exit_status
    /\ UNCHANGED <<err, argv, handlerVars>>

\* the handler returns, and main() with it, or raises
handler_return ==
    /\ pc = "handler"
    /\ \E e \in {"none", "raised"} :
        /\ err' = e
        /\ exit_status' = IF e = "none" THEN "0" ELSE "1"
    /\ pc' = "done"
    /\ UNCHANGED <<argv, ran, handlerVars>>

NextMain ==
    \/ main_parse
    \/ main_dispatch
    \/ handler_return

SpecMain == InitMain /\ [][NextMain]_vars

\* the handler the command-line interface documents for each command
Handler ==
    [c \in Commands |->
        CASE c = "crop" -> "run_crop"
          [] c = "mask" -> "run_mask"
          [] c = "illum" -> "run_illum"
          [] c = "stitch" -> "run_stitch"
          [] c = "cat" -> "run_cat"
          [] c = "features" -> "run_features"]

CommandGiven == argv # <<>> /\ argv[1] \in Commands

HelpAsked == argv # <<>> /\ (argv[1] = "-h" \/ (CommandGiven /\ "-h" \in Range(argv)))

====

